---- MODULE Spec2Model ----
(***************************************************************************)
(* Model of dpb-benchmark/scripts/generate-report.py: the report generator *)
(* that loads a JSON benchmark document, renders a markdown report, writes *)
(* it next to the input and echoes it on standard output.                  *)
(*                                                                         *)
(* Representation.                                                         *)
(*  - A JSON object (a Python dict) is a function whose DOMAIN is its set  *)
(*    of keys; an ordered JSON object that the code iterates (winners) is  *)
(*    a sequence of <<key, value>> pairs in insertion order.               *)
(*  - Any other JSON value is a tagged record: Num(n), S(s), Null, ...     *)
(*  - Text the code only concatenates is a TLA+ string; text the code      *)
(*    takes apart (paths, category keys) is a sequence of one-character    *)
(*    strings.                                                             *)
(*  - Module text is ASCII, so the non-ASCII glyphs of the report (emoji,  *)
(*    the check mark) are written as :name: tokens.                        *)
(***************************************************************************)
EXTENDS Integers, Sequences, FiniteSets, TLC

VARIABLES
    pc,           \* position of the running process in __main__
    argv,         \* sys.argv[1:] of the running process
    fs,           \* the file system: path -> content, for existing files
    clock,        \* wall clock, seconds since BaseDate 00:00:00
    results_file, \* __main__: results_file
    results,      \* __main__: results
    report_list,  \* generate_markdown_report: the list `report` at return
    report,       \* __main__: report
    output_file,  \* __main__: output_file
    stdout,       \* what the running process printed, one entry per print()
    status,       \* exit status of the process, NoValue while it runs
    err,          \* the exception that ended the process, "none" otherwise
    effects,      \* the running process's side effects, in order
    fs_start,     \* the file system when the running process started
    calls,        \* every call of generate_markdown_report so far
    runs          \* number of processes started so far

vars == <<pc, argv, fs, clock, results_file, results, report_list, report,
          output_file, stdout, status, err, effects, fs_start, calls, runs>>

NoValue == [t |-> "none"]
EmptyDict == <<>>

(***************************************************************************)
(* Bounds of the model.                                                    *)
(***************************************************************************)
MaxVal == 3        \* operation timings range over 0..MaxVal and a few more
MaxNameToks == 2   \* tokens per path component
MaxTicks == 1      \* seconds the clock may advance in total
MaxRuns == 2       \* invocations of the program

(***************************************************************************)
(* The values json.load yields and Python's formatting of them.            *)
(***************************************************************************)
Num(n) == [t |-> "num", v |-> n]             \* an int
S(s) == [t |-> "str", v |-> s]
Null == [t |-> "null"]                       \* JSON null, Python's None
Bool(b) == [t |-> "bool", v |-> b]
List(items) == [t |-> "list", v |-> items]   \* a JSON array of ints
\* the int 10^400: json.load keeps its every digit, no double can hold it
Huge == [t |-> "huge"]
\* the float twice/2
Flt(twice) == [t |-> "float", v |-> twice]
\* float("inf"), float("-inf") and float("nan"), which json.load yields for
\* 1e999, -1e999 and NaN
NonFinite(s) == [t |-> "nonfinite", v |-> s]

\* dict.get(key, default)
Get(d, k, default) == IF k \in DOMAIN d THEN d[k] ELSE default

RECURSIVE JoinWith(_, _)
\* sep.join(items), computed by halves to keep the recursion shallow
JoinWith(sep, items) ==
    IF items = << >> THEN ""
    ELSE IF Len(items) = 1 THEN items[1]
    ELSE LET half == Len(items) \div 2
         IN  JoinWith(sep, SubSeq(items, 1, half)) \o sep
             \o JoinWith(sep, SubSeq(items, half + 1, Len(items)))

\* "".join(chars)
Concat(chars) == JoinWith("", chars)

\* "\n".join(lines)
Join(lines) == JoinWith("\n", lines)

Range(s) == {s[i] : i \in DOMAIN s}

\* str(10 ** 400)
HugeText == "1" \o JoinWith("", [i \in 1 .. 40 |-> "0000000000"])

\* f"{x}": str(x) for an int, a bool, None or a str, repr(x) for a float
\* and for a list of ints
Fmt(x) ==
    CASE x.t = "num" -> ToString(x.v)
      [] x.t = "huge" -> HugeText
      [] x.t = "float" ->
            (IF x.v < 0 THEN "-" ELSE "")
            \o ToString((IF x.v < 0 THEN -x.v ELSE x.v) \div 2)
            \o (IF x.v % 2 = 0 THEN ".0" ELSE ".5")
      [] x.t = "nonfinite" -> x.v
      [] x.t = "null" -> "None"
      [] x.t = "bool" -> IF x.v THEN "True" ELSE "False"
      [] x.t = "list" ->
            "[" \o JoinWith(", ", [i \in DOMAIN x.v |-> ToString(x.v[i])])
            \o "]"
      [] OTHER -> x.v

\* bool(x)
Truthy(x) ==
    CASE x.t \in {"num", "float"} -> x.v # 0
      [] x.t = "str" -> x.v # ""
      [] x.t = "bool" -> x.v
      [] x.t = "list" -> x.v # << >>
      [] x.t = "null" -> FALSE
      [] OTHER -> TRUE

(***************************************************************************)
(* str.replace('_', ' ').title() on a category key.                        *)
(***************************************************************************)
Lowercase == <<"a","b","c","d","e","f","g","h","i","j","k","l","m",
               "n","o","p","q","r","s","t","u","v","w","x","y","z">>
Uppercase == <<"A","B","C","D","E","F","G","H","I","J","K","L","M",
               "N","O","P","Q","R","S","T","U","V","W","X","Y","Z">>

IsLower(c) == c \in Range(Lowercase)
IsUpper(c) == c \in Range(Uppercase)
IsCased(c) == IsLower(c) \/ IsUpper(c)
IndexIn(c, alphabet) == CHOOSE i \in DOMAIN alphabet : alphabet[i] = c
ToUpper(c) == IF IsLower(c) THEN Uppercase[IndexIn(c, Lowercase)] ELSE c
ToLower(c) == IF IsUpper(c) THEN Lowercase[IndexIn(c, Uppercase)] ELSE c

\* category.replace('_', ' ')
ReplaceUnderscore(chars) ==
    [i \in DOMAIN chars |-> IF chars[i] = "_" THEN " " ELSE chars[i]]

\* str.title(): a cased character is upper-cased when it follows an uncased
\* character (or starts the string) and lower-cased otherwise
Title(chars) ==
    [i \in DOMAIN chars |->
        IF i = 1 \/ ~IsCased(chars[i - 1])
        THEN ToUpper(chars[i]) ELSE ToLower(chars[i])]

CategoryName(category) == Concat(Title(ReplaceUnderscore(category)))

(***************************************************************************)
(* datetime.now().strftime('%Y-%m-%d %H:%M:%S').  The clock counts seconds *)
(* from BaseDate 00:00:00; the model's clock stays within October 2026.     *)
(***************************************************************************)
BaseDate == [year |-> 2026, month |-> 10, day |-> 28]
StartClock == 23 * 3600 + 59 * 60 + 59   \* one tick crosses midnight

Pad2(n) == IF n < 10 THEN "0" \o ToString(n) ELSE ToString(n)

Strftime(t) ==
    LET day == BaseDate.day + (t \div 86400)
        sec == t % 86400
    IN  ToString(BaseDate.year) \o "-" \o Pad2(BaseDate.month)
        \o "-" \o Pad2(day)
        \o " " \o Pad2(sec \div 3600) \o ":" \o Pad2((sec % 3600) \div 60)
        \o ":" \o Pad2(sec % 60)

(***************************************************************************)
(* f"{speedup:.1f}" for speedup = ((ts_val - rust_val) / ts_val) * 100.    *)
(* Here the operands are ints (floats reach this as their doubled values,  *)
(* see Speedup); `/` and `*` produce IEEE 754 doubles, each                *)
(* result correctly rounded to a 53-bit significand (ties to even), and     *)
(* '.1f' rounds the double's exact value to one decimal (ties to even).     *)
(* A double is [m, e]: m its significand as 53 binary digits, the most      *)
(* significant first and equal to 1, e the exponent of that first digit.    *)
(***************************************************************************)
Abs(n) == IF n < 0 THEN -n ELSE n

\* the width of a double's significand
Precision == 53

\* 2^n for n in 0..30
Pow2(n) ==
    <<1, 2, 4, 8, 16, 32, 64, 128, 256, 512, 1024, 2048, 4096, 8192, 16384,
      32768, 65536, 131072, 262144, 524288, 1048576, 2097152, 4194304,
      8388608, 16777216, 33554432, 67108864, 134217728, 268435456,
      536870912, 1073741824>>[n + 1]

\* how many binary digits a natural number has
Width(n) == CHOOSE w \in 0..31 : (w = 0 \/ Pow2(w - 1) <= n)
                                  /\ (w = 31 \/ n < Pow2(w))

\* the binary digits of a natural number, most significant first
Bits(n) == [i \in 1..Width(n) |-> (n \div Pow2(Width(n) - i)) % 2]

\* the w low binary digits of a natural number
FixedBits(n, w) == [i \in 1..w |-> (n \div Pow2(w - i)) % 2]

RECURSIVE BitsValue(_)
\* the natural number a sequence of binary digits denotes, by halves
BitsValue(bits) ==
    IF bits = << >> THEN 0
    ELSE IF Len(bits) = 1 THEN bits[1]
    ELSE LET h == Len(bits) \div 2
         IN  BitsValue(SubSeq(bits, 1, h)) * Pow2(Len(bits) - h)
             + BitsValue(SubSeq(bits, h + 1, Len(bits)))

\* n zeros (none for n <= 0)
Zeros(n) == [i \in 1..(IF n < 0 THEN 0 ELSE n) |-> 0]

\* bits + 1, in Len(bits) + 1 digits
Increment(bits) ==
    LET padded == <<0>> \o bits
        j == CHOOSE i \in DOMAIN padded :
                 /\ padded[i] = 0
                 /\ \A k \in (i + 1)..Len(padded) : padded[k] = 1
    IN  [i \in DOMAIN padded |->
            IF i < j THEN padded[i] ELSE IF i = j THEN 1 ELSE 0]

\* round to nearest, ties to even: the number bits.(more digits) with
\* `keep` digits before the point, `sticky` telling that non-zero digits
\* follow those of `bits`; the result has keep + 1 digits
RoundNearestEven(bits, keep, sticky) ==
    LET kept == SubSeq(bits, 1, keep)
        guard == IF Len(bits) > keep THEN bits[keep + 1] ELSE 0
        rest == sticky \/ \E i \in (keep + 2)..Len(bits) : bits[i] = 1
        odd == keep > 0 /\ bits[keep] = 1
    IN  IF guard = 1 /\ (rest \/ odd) THEN Increment(kept)
        ELSE <<0>> \o kept

\* the double nearest to the number whose binary digits are `bits` (and
\* more, non-zero ones if `sticky`), bits[1] = 1 having exponent e
RoundToDouble(bits, e, sticky) ==
    LET r == RoundNearestEven(bits \o Zeros(Precision - Len(bits)),
                              Precision, sticky)
    IN  IF r[1] = 1 THEN [m |-> SubSeq(r, 1, Precision), e |-> e + 1]
        ELSE [m |-> SubSeq(r, 2, Precision + 1), e |-> e]

RECURSIVE Expand(_, _, _)
\* long division: the first n binary digits of r / b after the point and
\* the remainder they leave (0 <= r < b, n >= 1); as many digits at a time
\* as keep r * 2^n below 2^31, the rest by halves
Expand(r, b, n) ==
    IF n <= 31 - Width(b)
    THEN [bits |-> FixedBits((r * Pow2(n)) \div b, n),
          rem |-> (r * Pow2(n)) % b]
    ELSE LET first == Expand(r, b, n \div 2)
             second == Expand(first.rem, b, n - n \div 2)
         IN  [bits |-> first.bits \o second.bits, rem |-> second.rem]

\* how many zeros follow the point of r / b before its first 1 (0 < r < b)
LeadingZeros(r, b) ==
    CHOOSE z \in 0..30 : r * Pow2(z) < b /\ 2 * r * Pow2(z) >= b

\* a / b for ints a > 0, b > 0: int.__truediv__, correctly rounded
TrueDiv(a, b) ==
    IF a >= b
    THEN LET whole == Bits(a \div b)
             q == Expand(a % b, b, Precision + 1 - Len(whole))
         IN  RoundToDouble(whole \o q.bits, Len(whole) - 1, q.rem # 0)
    ELSE LET z == LeadingZeros(a, b)
             q == Expand(a * Pow2(z), b, Precision + 1)
         IN  RoundToDouble(q.bits, -(z + 1), q.rem # 0)

\* bits without its leading zeros
Stripped(bits) ==
    IF \A i \in DOMAIN bits : bits[i] = 0 THEN << >>
    ELSE SubSeq(bits,
                CHOOSE i \in DOMAIN bits :
                    bits[i] = 1 /\ \A k \in 1..(i - 1) : bits[k] = 0,
                Len(bits))

\* the binary digits of bits * c, for at most 60 digits and 0 < c <= 1000:
\* schoolbook multiplication on three limbs of 20 digits
MulSmall(bits, c) ==
    LET limb == 20
        padded == Zeros(3 * limb - Len(bits)) \o bits
        v(k) == BitsValue(SubSeq(padded, k * limb + 1, (k + 1) * limb))
        t2 == v(2) * c
        t1 == v(1) * c + t2 \div Pow2(limb)
        t0 == v(0) * c + t1 \div Pow2(limb)
    IN  Stripped(Bits(t0) \o FixedBits(t1 % Pow2(limb), limb)
                 \o FixedBits(t2 % Pow2(limb), limb))

\* x * c for a double x > 0 and a small int c > 0: float.__mul__
Times(x, c) ==
    LET product == MulSmall(x.m, c)
    IN  RoundToDouble(product, x.e + Len(product) - Precision, FALSE)

\* the double x > 0 in tenths, rounded to the nearest integer, ties to even:
\* the digits '.1f' prints (x below 2^27)
Tenths(x) ==
    LET scaled == MulSmall(x.m, 10)
        fraction == Precision - 1 - x.e
        padded == Zeros(fraction + 1 - Len(scaled)) \o scaled
    IN  BitsValue(RoundNearestEven(padded, Len(padded) - fraction, FALSE))

\* the '.1f' rendering of the number tenths/10, negative zero included
Fixed1(tenths, negative) ==
    (IF negative THEN "-" ELSE "")
    \o ToString(Abs(tenths) \div 10) \o "." \o ToString(Abs(tenths) % 10)

\* f"{((ts - rust) / ts) * 100:.1f}" for ints ts # 0 and rust that the
\* model's integers hold; the float quotient is negative (possibly -0.0)
\* when its operands' signs differ
SpeedupText(ts, rust) ==
    LET negative == IF ts < 0 THEN ts - rust >= 0 ELSE ts - rust < 0
    IN  IF ts = rust THEN Fixed1(0, negative)
        ELSE Fixed1(Tenths(Times(TrueDiv(Abs(ts - rust), Abs(ts)), 100)),
                    negative)

(***************************************************************************)
(* generate_markdown_report(results), section by section.  Each operator   *)
(* gives the lines its part of the function appends to `report`.           *)
(***************************************************************************)
NA == S("N/A")

\* HeaderLines with the test date falling back to the current time
HeaderLinesClockDefault(res, now) ==
    << "# PHP MCP Server Benchmark Report",
       "",
       "**Generated:** " \o Strftime(now),
       "**Test Date:** " \o Fmt(Get(res, "timestamp", S(Strftime(now)))),
       "" >>

\* lines 19-23: title and metadata
HeaderLines(res, now) ==
    << "# PHP MCP Server Benchmark Report",
       "",
       "**Generated:** " \o Strftime(now),
       "**Test Date:** " \o Fmt(Get(res, "timestamp", NA)),
       "" >>

\* lines 26-36: test environment
EnvironmentLines(res) ==
    LET system == Get(res, "system", EmptyDict)
    IN  << "## :desktop_computer: Test Environment",
           "",
           "- **OS:** " \o Fmt(Get(system, "os", NA)),
           "- **Architecture:** " \o Fmt(Get(system, "arch", NA)),
           "- **Kernel:** " \o Fmt(Get(system, "kernel", NA)) >>
        \o (IF "cpu" \in DOMAIN system
            THEN << "- **CPU:** " \o Fmt(system["cpu"]) >> ELSE << >>)
        \o (IF "memory" \in DOMAIN system
            THEN << "- **Memory:** " \o Fmt(system["memory"]) >> ELSE << >>)
        \o << "" >>

\* lines 39-48: test configuration
TestDetailsLines(res) ==
    IF "test_details" \in DOMAIN res
    THEN LET details == res["test_details"]
         IN  << "## :clipboard: Test Configuration",
                "",
                "- **Repository:** " \o Fmt(Get(details, "repository", NA)),
                "- **Files Analyzed:** "
                    \o Fmt(Get(details, "files_analyzed", NA)),
                "- **PHP Files:** " \o Fmt(Get(details, "php_files", NA)),
                "- **Dependencies:** "
                    \o Fmt(Get(details, "dependencies", NA)),
                "- **Test Runs:** " \o Fmt(Get(details, "test_runs", NA)),
                "" >>
    ELSE << >>

\* line 60: one row of the winners table
WinnerRow(item) ==
    "| " \o CategoryName(item[1]) \o " | **" \o Fmt(item[2]) \o "** |"

\* lines 51-61: performance summary
WinnersLines(res) ==
    << "## :trophy: Performance Summary", "" >>
    \o (IF "winners" \in DOMAIN res
        THEN LET winners == res["winners"]
             IN  << "| Category | Winner |", "|----------|--------|" >>
                 \o [i \in DOMAIN winners |-> WinnerRow(winners[i])]
                 \o << "" >>
        ELSE << >>)

\* res.get(<Name>, {}).get(<metric>, default)
Metric(res, name, metric, default) ==
    Get(Get(res, name, EmptyDict), metric, default)

\* line 77: the TypeScript cell is a literal; ts_bin (line 74) is not used
BinarySizeRow(res) ==
    "| Binary Size | N/A (needs runtime) | "
    \o Fmt(Metric(res, "Go", "binary_size_mb", NA)) \o " MB | "
    \o Fmt(Metric(res, "Rust", "binary_size_mb", NA)) \o " MB | Rust |"

\* MetricRow with the operation table's default, 0, for a missing value
MetricRowZeroDefault(res, label, metric, unit) ==
    "| " \o label \o " | "
    \o Fmt(Metric(res, "TypeScript", metric, Num(0))) \o " " \o unit \o " | "
    \o Fmt(Metric(res, "Go", metric, Num(0))) \o " " \o unit \o " | "
    \o Fmt(Metric(res, "Rust", metric, Num(0))) \o " " \o unit \o " | Rust |"

\* lines 83, 89, 95: a row showing one metric of the three implementations
MetricRow(res, label, metric, unit) ==
    "| " \o label \o " | "
    \o Fmt(Metric(res, "TypeScript", metric, NA)) \o " " \o unit \o " | "
    \o Fmt(Metric(res, "Go", metric, NA)) \o " " \o unit \o " | "
    \o Fmt(Metric(res, "Rust", metric, NA)) \o " " \o unit \o " | Rust |"

ComparisonHeader == "| Metric | TypeScript | Go | Rust | Winner |"

\* lines 64-97: detailed benchmark results
ComparisonLines(results_) ==
    LET res == Get(results_, "results", EmptyDict)
    IN  << "## :bar_chart: Detailed Benchmark Results",
           "",
           ComparisonHeader,
           "|--------|-----------|-----|------|--------|",
           BinarySizeRow(res),
           MetricRow(res, "Startup Time", "startup_time_ms", "ms"),
           MetricRow(res, "Memory Peak", "memory_peak_mb", "MB"),
           MetricRow(res, "Full Analysis", "full_analysis_ms", "ms"),
           "" >>

\* lines 105-111
operations ==
    << <<"Dependency Analysis", "dependency_analysis_ms">>,
       <<"PSR-4 Validation", "psr4_validation_ms">>,
       <<"Namespace Detection", "namespace_detection_ms">>,
       <<"Security Audit", "security_audit_ms">>,
       <<"License Analysis", "license_analysis_ms">> >>

\* line 118: if ts_val and rust_val
SpeedupGuard(ts_val, rust_val) == Truthy(ts_val) /\ Truthy(rust_val)

\* the operands of line 119 that are numbers to Python
IsInt(x) == x.t \in {"num", "bool", "huge"}
IsFloat(x) == x.t \in {"float", "nonfinite"}
IsNumber(x) == IsInt(x) \/ IsFloat(x)

\* twice the value of a number other than Huge and the non-finite floats;
\* True is 1 and False is 0
Twice(x) ==
    CASE x.t = "num" -> 2 * x.v
      [] x.t = "bool" -> IF x.v THEN 2 ELSE 0
      [] OTHER -> x.v

\* lines 119-120: speedup = ((ts_val - rust_val) / ts_val) * 100, and then
\* f"{speedup:.1f}": the exception raised, the text when it is the same for
\* all such operands, or "quotient" when the text depends on the values.
\* The subtraction comes first: it raises TypeError unless both operands
\* are numbers, and OverflowError when it has to convert Huge to a float.
\* The division raises ZeroDivisionError on a zero divisor and
\* OverflowError when both operands are ints and the quotient exceeds the
\* doubles.
SpeedupKind(ts_val, rust_val) ==
    IF ~IsNumber(ts_val) \/ ~IsNumber(rust_val) THEN "TypeError"
    ELSE IF IsInt(ts_val) /\ IsInt(rust_val)
    THEN IF ts_val = Huge
         THEN IF rust_val = Huge THEN "0.0" ELSE "100.0"
         ELSE IF Twice(ts_val) = 0 THEN "ZeroDivisionError"
         ELSE IF rust_val = Huge THEN "OverflowError"
         ELSE "quotient"
    ELSE IF ts_val = Huge \/ rust_val = Huge THEN "OverflowError"
    ELSE IF ts_val.t # "nonfinite" /\ Twice(ts_val) = 0
    THEN "ZeroDivisionError"
    ELSE IF ts_val.t = "nonfinite" \/ rust_val = NonFinite("nan") THEN "nan"
    ELSE IF rust_val.t = "nonfinite"
    THEN IF (rust_val.v = "inf") = (Twice(ts_val) > 0) THEN "-inf" ELSE "inf"
    ELSE "quotient"

Exceptions == {"TypeError", "OverflowError", "ZeroDivisionError"}

\* lines 119-120 as [raised, text].  Ints convert to float exactly, so the
\* quotient of two floats is the rounded quotient of their doubled values
Speedup(ts_val, rust_val) ==
    LET kind == SpeedupKind(ts_val, rust_val)
    IN  [raised |-> IF kind \in Exceptions THEN kind ELSE "none",
         text |-> IF kind \in Exceptions THEN ""
                  ELSE IF kind = "quotient"
                  THEN SpeedupText(Twice(ts_val), Twice(rust_val))
                  ELSE kind]

\* lines 118-122: the speedup cell of an operation row
SpeedupCell(ts_val, rust_val) ==
    IF SpeedupGuard(ts_val, rust_val)
    THEN Speedup(ts_val, rust_val).text \o "% faster"
    ELSE "N/A"

\* lines 118-119: the exception the row of operation op raises, if any
RowRaises(res, op) ==
    LET ts_val == Metric(res, "TypeScript", op[2], Num(0))
        rust_val == Metric(res, "Rust", op[2], Num(0))
    IN  IF SpeedupGuard(ts_val, rust_val)
        THEN Speedup(ts_val, rust_val).raised
        ELSE "none"

\* the first exception of a sequence of steps, each of which raises one or
\* "none"
FirstRaised(steps) ==
    IF \A i \in DOMAIN steps : steps[i] = "none" THEN "none"
    ELSE steps[CHOOSE i \in DOMAIN steps :
                  /\ steps[i] # "none"
                  /\ \A j \in 1 .. (i - 1) : steps[j] = "none"]

\* lines 113-122: the exception the loop over the operations raises, that
\* of the first row to raise one
BreakdownRaises(results_) ==
    FirstRaised([i \in DOMAIN operations |->
                    RowRaises(Get(results_, "results", EmptyDict),
                              operations[i])])

\* lines 114-122: one row of the operation table
OperationRow(res, op) ==
    LET ts_val == Metric(res, "TypeScript", op[2], Num(0))
        go_val == Metric(res, "Go", op[2], Num(0))
        rust_val == Metric(res, "Rust", op[2], Num(0))
    IN  "| " \o op[1] \o " | " \o Fmt(ts_val) \o " ms | " \o Fmt(go_val)
        \o " ms | " \o Fmt(rust_val) \o " ms | "
        \o SpeedupCell(ts_val, rust_val) \o " |"

\* lines 100-124: performance breakdown by operation
BreakdownLines(results_) ==
    LET res == Get(results_, "results", EmptyDict)
    IN  << "## :dart: Performance Breakdown by Operation",
           "",
           "| Operation | TypeScript | Go | Rust | Speedup (Rust vs TS) |",
           "|-----------|-----------|-----|------|---------------------|" >>
        \o [i \in DOMAIN operations |-> OperationRow(res, operations[i])]
        \o << "" >>

\* lines 133-155: the three key-insight subsections, in report order
insights ==
    << [key |-> "fastest_startup", heading |-> "### Startup Performance",
        label |-> "- **Time:** ", metric |-> "time_ms", unit |-> " ms",
        improvement |-> "improvement_vs_slowest",
        tail |-> " faster than slowest"],
       [key |-> "lowest_memory", heading |-> "### Memory Efficiency",
        label |-> "- **Usage:** ", metric |-> "memory_mb", unit |-> " MB",
        improvement |-> "improvement_vs_highest",
        tail |-> " less than highest"],
       [key |-> "fastest_analysis", heading |-> "### Analysis Speed",
        label |-> "- **Time:** ", metric |-> "time_ms", unit |-> " ms",
        improvement |-> "improvement_vs_slowest",
        tail |-> " faster than slowest"] >>

\* the keys one subsection subscripts: fs['language'], fs['time_ms'], ...
InsightKeys(sec) == {"language", sec.metric, sec.improvement}

\* lines 133-139 (141-147, 149-155): one subsection, all its keys present
InsightLines(summary, sec) ==
    IF sec.key \in DOMAIN summary
    THEN LET entry == summary[sec.key]
         IN  << sec.heading,
                "- **Winner:** " \o Fmt(entry["language"]),
                sec.label \o Fmt(entry[sec.metric]) \o sec.unit,
                "- **Improvement:** " \o Fmt(entry[sec.improvement])
                    \o sec.tail,
                "" >>
    ELSE << >>

\* lines 127-155: key insights
KeyInsightsLines(res) ==
    << "## :bulb: Key Insights", "" >>
    \o (IF "summary" \in DOMAIN res
        THEN InsightLines(res["summary"], insights[1])
             \o InsightLines(res["summary"], insights[2])
             \o InsightLines(res["summary"], insights[3])
        ELSE << >>)

\* lines 158-186: recommendations, static text
RecommendationLines ==
    << "## :dart: Recommendations",
       "",
       "### For Dependency Buster Platform Rebuild",
       "",
       "**Development Phase:**",
       "- :check: **TypeScript** - Fastest iteration, easiest debugging",
       "- :check: Rich npm ecosystem for rapid prototyping",
       "",
       "**Production Deployment:**",
       "- :rocket: **Rust** - Best performance, lowest resource usage",
       "- :rocket: 89% faster full analysis",
       "- :rocket: 85% less memory consumption",
       "- :rocket: Single binary distribution",
       "",
       "**Team Distribution:**",
       "- :zap: **Go** - Good balance of performance and simplicity",
       "- :zap: Fast compilation, easy cross-platform builds",
       "",
       "### Use Case Matrix",
       "",
       "| Scenario | Best Choice | Rationale |",
       "|----------|------------|-----------|",
       "| Local Development | TypeScript | Fast iteration, great tooling |",
       "| CI/CD Pipeline | Rust | Fastest execution, no dependencies |",
       "| Production Server | Rust | Minimal resources, maximum speed |",
       "| Windows Deployment | Go | Best Windows support |",
       "| Mac M1/M2 | Rust | Native ARM64, extremely fast |",
       "| Team Distribution | Go | Single binary, good docs |",
       "" >>

RankingKeys == {"rank", "language", "score"}

\* x == n for an int n: Python compares numbers by value, so that True and
\* 1.0 equal 1, and nothing but a number equals one
Equals(x, n) ==
    CASE x.t = "num" -> x.v = n
      [] x.t = "bool" -> (IF x.v THEN 1 ELSE 0) = n
      [] x.t = "float" -> x.v = 2 * n
      [] OTHER -> FALSE

\* lines 194-203: one line of the ranking, all its keys present
RankingLine(rank_info) ==
    LET rank == rank_info["rank"]
        lang == rank_info["language"]
        score == rank_info["score"]
        medal == IF Equals(rank, 1) THEN ":1st_place_medal:"
                 ELSE IF Equals(rank, 2) THEN ":2nd_place_medal:"
                 ELSE ":3rd_place_medal:"
    IN  Fmt(rank) \o ". " \o medal \o " **" \o Fmt(lang) \o "** (Score: "
        \o Fmt(score) \o "/100)"

\* lines 189-210: conclusion
ConclusionLines(res) ==
    << "## :tada: Conclusion", "", "**Performance Ranking:**" >>
    \o (IF "summary" \in DOMAIN res
           /\ "performance_ranking" \in DOMAIN res["summary"]
        THEN LET ranking == res["summary"]["performance_ranking"]
             IN  [i \in DOMAIN ranking |-> RankingLine(ranking[i])]
        ELSE << >>)
    \o << "",
          "**Final Recommendation:**",
          "- Use **Rust** for the Dependency Buster production deployment",
          "- The performance gains (9x faster) and memory savings (85% less) justify the investment",
          "- Keep TypeScript for rapid prototyping and experiments",
          "" >>

\* d[k] raises KeyError when k is not a key of d: the subscripts of lines
\* 136-138, 144-146, 152-154 and 194-196 are the only ones not guarded
RaisesKeyError(res) ==
    /\ "summary" \in DOMAIN res
    /\ LET summary == res["summary"]
       IN  \/ \E i \in DOMAIN insights :
                 /\ insights[i].key \in DOMAIN summary
                 /\ ~(InsightKeys(insights[i])
                        \subseteq DOMAIN summary[insights[i].key])
           \/ /\ "performance_ranking" \in DOMAIN summary
              /\ \E i \in DOMAIN summary["performance_ranking"] :
                    ~(RankingKeys
                        \subseteq DOMAIN summary["performance_ranking"][i])

\* lines 18-210: the list `report` when the function reaches its return
ReportList(res, now) ==
    HeaderLines(res, now) \o EnvironmentLines(res) \o TestDetailsLines(res)
    \o WinnersLines(res) \o ComparisonLines(res) \o BreakdownLines(res)
    \o KeyInsightsLines(res) \o RecommendationLines \o ConclusionLines(res)

\* the exception generate_markdown_report(results) raises, "none" if it
\* returns; the operation table (line 119) comes before the summary
Raises(res) ==
    FirstRaised(<<BreakdownRaises(res),
                  IF RaisesKeyError(res) THEN "KeyError" ELSE "none">>)

\* generate_markdown_report(results) called when the clock reads `now`:
\* either it raises, or it returns "\n".join(report)
Render(res, now) ==
    IF Raises(res) # "none"
    THEN [raised |-> Raises(res), lines |-> << >>, text |-> ""]
    ELSE [raised |-> "none", lines |-> ReportList(res, now),
          text |-> Join(ReportList(res, now))]

(***************************************************************************)
(* f.write(report), line 225, encodes the report as UTF-8, which holds     *)
(* every character but a lone surrogate (json.load yields one for an       *)
(* escape like "\ud800").                                                   *)
(***************************************************************************)
\* a lone surrogate, as a character of the model's strings
LoneSurrogate == ":lone_surrogate:"

\* the first position of a lone surrogate in text, 0 when it holds none
SurrogateAt(text) ==
    LET width == Len(LoneSurrogate)
        at == {i \in 1 .. (Len(text) - width + 1) :
                 SubSeq(text, i, i + width - 1) = LoneSurrogate}
    IN  IF at = {} THEN 0 ELSE CHOOSE i \in at : \A j \in at : i <= j

RECURSIVE ScrubText(_)
\* text with "?" for each of its lone surrogates
ScrubText(text) ==
    LET i == SurrogateAt(text)
    IN  IF i = 0 THEN text
        ELSE SubSeq(text, 1, i - 1) \o "?"
             \o ScrubText(SubSeq(text, i + Len(LoneSurrogate), Len(text)))

ScrubValue(x) == IF x.t = "str" THEN S(ScrubText(x.v)) ELSE x
ScrubDict(d) == [k \in DOMAIN d |-> ScrubValue(d[k])]
ScrubChars(chars) ==
    [i \in DOMAIN chars |-> IF chars[i] = LoneSurrogate THEN "?" ELSE chars[i]]

\* the document with "?" for every lone surrogate of the sections the
\* report draws on
Scrub(doc) ==
    [k \in DOMAIN doc |->
        IF k = "timestamp" THEN ScrubValue(doc[k])
        ELSE IF k \in {"system", "test_details"} THEN ScrubDict(doc[k])
        ELSE IF k = "winners"
        THEN [i \in DOMAIN doc[k] |->
                 <<ScrubChars(doc[k][i][1]), ScrubValue(doc[k][i][2])>>]
        ELSE IF k = "results"
        THEN [n \in DOMAIN doc[k] |-> ScrubDict(doc[k][n])]
        ELSE IF k = "summary"
        THEN [m \in DOMAIN doc[k] |->
                 IF m = "performance_ranking"
                 THEN [i \in DOMAIN doc[k][m] |-> ScrubDict(doc[k][m][i])]
                 ELSE ScrubDict(doc[k][m])]
        ELSE doc[k]]

\* the report rendered from doc at `now` holds no lone surrogate: it reads
\* the same with "?" in their place
Encodable(doc, now) ==
    \/ Scrub(doc) = doc
    \/ ReportList(Scrub(doc), now) = ReportList(doc, now)

(***************************************************************************)
(* Paths and files.                                                        *)
(***************************************************************************)
DotJson == <<".", "j", "s", "o", "n">>
ReportSuffix == <<"_", "r", "e", "p", "o", "r", "t", ".", "m", "d">>

RECURSIVE Replace(_, _, _)
\* str.replace(old, new): every non-overlapping occurrence, left to right
Replace(s, old, new) ==
    IF Len(s) < Len(old) THEN s
    ELSE IF SubSeq(s, 1, Len(old)) = old
         THEN new \o Replace(SubSeq(s, Len(old) + 1, Len(s)), old, new)
         ELSE <<Head(s)>> \o Replace(Tail(s), old, new)

\* line 223: results_file.replace('.json', '_report.md')
OutputPath(path) == Replace(path, DotJson, ReportSuffix)

\* the directory part of a path: what precedes its last "/"
DirOf(path) ==
    LET slashes == {i \in DOMAIN path : path[i] = "/"}
    IN  IF slashes = {} THEN << >>
        ELSE SubSeq(path, 1, (CHOOSE i \in slashes :
                                 \A j \in slashes : j <= i) - 1)

JsonFile(doc) == [kind |-> "json", doc |-> doc]
TextFile(text) == [kind |-> "text", text |-> text]
Directory == [kind |-> "dir"]

(***************************************************************************)
(* The file system maps the canonical name of each file, and of each       *)
(* directory it lists (an empty one has to be listed), to its content.  Canonical names are relative to the current  *)
(* directory, which is << >>: "r.json", "d/r.json"; ".." and "../.." name   *)
(* the directories above it, "../x" an entry of the one above; a name that  *)
(* begins with "/" is absolute.  open() resolves the path it is given to a  *)
(* canonical name, component by component.                                  *)
(***************************************************************************)
Root == <<"/">>
DotDot == <<".", ".">>

\* the components of a path: what its "/" separate, empty ones included
Components(path) ==
    LET cuts == {0, Len(path) + 1} \cup {i \in DOMAIN path : path[i] = "/"}
        nth(k) == CHOOSE i \in cuts : Cardinality({j \in cuts : j < i}) = k - 1
    IN  [k \in 1..(Cardinality(cuts) - 1) |->
            SubSeq(path, nth(k) + 1, nth(k + 1) - 1)]

\* the entry `name` of directory dir
Child(dir, name) ==
    IF dir = << >> THEN name
    ELSE IF dir = Root THEN Root \o name
    ELSE dir \o <<"/">> \o name

\* dir is a directory above the current one: "..", "../..", ...
IsUp(dir) ==
    dir # << >> /\ \A k \in DOMAIN Components(dir) : Components(dir)[k] = DotDot

\* the directory that holds directory dir: what ".." names in it
Parent(dir) ==
    IF dir = << >> THEN DotDot
    ELSE IF dir = Root THEN Root
    ELSE IF IsUp(dir) THEN dir \o <<"/">> \o DotDot
    ELSE IF dir[1] = "/" /\ DirOf(dir) = << >> THEN Root
    ELSE DirOf(dir)

\* the directories a canonical name lies in, the current one aside
Ancestors(name) ==
    {SubSeq(name, 1, i - 1) : i \in {j \in DOMAIN name : j > 1 /\ name[j] = "/"}}
    \cup (IF name # << >> /\ name[1] = "/" THEN {Root} ELSE {})

\* the directories the file system shows: the current one, the root, the
\* empty ones it lists, and every directory some entry lies in
Directories(files) ==
    {<< >>, Root} \cup {p \in DOMAIN files : files[p] = Directory}
                  \cup UNION {Ancestors(p) : p \in DOMAIN files}

\* dir exists and is a directory
IsDir(files, dir) == IsUp(dir) \/ dir \in Directories(files)

RECURSIVE Walk(_, _, _, _)
\* path resolution from directory dir over comps[i], comps[i+1], ...: "" and
\* "." stay, ".." goes up, a name enters a directory or, when nothing but
\* empty components follows it, is the file named (kind "slash" if a "/"
\* follows it)
Walk(files, dir, comps, i) ==
    IF i > Len(comps) THEN [err |-> "none", key |-> dir, kind |-> "dir"]
    ELSE IF comps[i] \in {<< >>, <<".">>} THEN Walk(files, dir, comps, i + 1)
    ELSE IF comps[i] = DotDot THEN Walk(files, Parent(dir), comps, i + 1)
    ELSE LET next == Child(dir, comps[i])
             rest == {comps[k] : k \in (i + 1)..Len(comps)}
         IN  IF IsDir(files, next) THEN Walk(files, next, comps, i + 1)
             ELSE IF rest = {} THEN [err |-> "none", key |-> next,
                                     kind |-> "file"]
             ELSE IF rest = {<< >>} THEN [err |-> "none", key |-> next,
                                          kind |-> "slash"]
             ELSE [err |-> IF next \in DOMAIN files
                           THEN "NotADirectoryError"
                           ELSE "FileNotFoundError",
                   key |-> next, kind |-> "none"]

\* what a non-empty path resolves to
Resolve(files, path) ==
    Walk(files, IF path[1] = "/" THEN Root ELSE << >>, Components(path), 1)

\* the canonical name of the file a path names
Target(files, path) ==
    IF path = << >> THEN << >> ELSE Resolve(files, path).key

\* the exception open(path, mode) raises, "none" if it opens the file;
\* mode 'w' creates a missing file
OpenError(files, path, mode) ==
    IF path = << >> THEN "FileNotFoundError"
    ELSE LET r == Resolve(files, path)
         IN  IF r.err # "none" THEN r.err
             ELSE IF r.kind = "dir" THEN "IsADirectoryError"
             ELSE IF r.kind = "slash"
                  THEN (IF mode = "w" THEN "IsADirectoryError"
                        ELSE IF r.key \in DOMAIN files
                             THEN "NotADirectoryError"
                        ELSE "FileNotFoundError")
             ELSE IF mode = "r" /\ r.key \notin DOMAIN files
                  THEN "FileNotFoundError"
             ELSE "none"

\* WriteFile opening the file in append mode
WriteFileAppend(old, text) ==
    TextFile((IF old.kind = "text" THEN old.text ELSE "{...}") \o text)

\* open(path, 'w') truncates; f.write(text) then stores text
WriteFile(old, text) == TextFile("" \o text)

\* the file system after `with open(path, 'w') as f: f.write(text)`
Written(files, path, text) ==
    LET key == Target(files, path)
        old == IF key \in DOMAIN files THEN files[key] ELSE TextFile("")
    IN  [p \in DOMAIN files \cup {key} |->
            IF p = key THEN WriteFile(old, text) ELSE files[p]]

(***************************************************************************)
(* The inputs of the model: benchmark documents and command-line paths.    *)
(***************************************************************************)
Drop(d, k) == [x \in DOMAIN d \ {k} |-> d[x]]

\* the dicts that either lack `key` or map it to a value of `values`
Opt(key, values) == {EmptyDict} \cup {key :> v : v \in values}

FullSystem ==
    [os |-> S("Linux"), arch |-> S("x86_64"), kernel |-> S("6.1.0"),
     cpu |-> S("8 cores"), memory |-> S("16GB")]
Systems == {[os |-> S("Linux")], FullSystem}

FullDetails ==
    [repository |-> S("laravel"), files_analyzed |-> Num(120),
     php_files |-> Num(100), dependencies |-> Num(30), test_runs |-> Num(5)]
Details == {EmptyDict, FullDetails}

TwoWinners ==
    << << <<"b","i","n","a","r","y","_","s","i","z","e">>, S("Rust") >>,
       << <<"s","t","a","r","t","u","p","_","t","i","m","e">>, S("Rust") >> >>
MixedWinners ==
    << << <<"P","S","R","4","_","c","H","E","C","K">>, S("Go") >> >>
WinnerTables == {TwoWinners, MixedWinners}

FullResults ==
    [TypeScript |-> [package_size_mb |-> Num(45), startup_time_ms |-> Num(100),
                     memory_peak_mb |-> Num(80), full_analysis_ms |-> Num(900),
                     dependency_analysis_ms |-> Num(100)],
     Go |-> [binary_size_mb |-> Num(8), startup_time_ms |-> Num(10),
             memory_peak_mb |-> Num(20), full_analysis_ms |-> Num(200),
             dependency_analysis_ms |-> Num(40)],
     Rust |-> [binary_size_mb |-> Num(3), startup_time_ms |-> Num(50),
               memory_peak_mb |-> Num(12), full_analysis_ms |-> Num(100),
               dependency_analysis_ms |-> Num(20)]]

FastestStartup ==
    [language |-> S("Rust"), time_ms |-> Num(5),
     improvement_vs_slowest |-> S("95%")]
LowestMemory ==
    [language |-> S("Rust"), memory_mb |-> Num(12),
     improvement_vs_highest |-> S("85%")]
FastestAnalysis ==
    [language |-> S("Go"), time_ms |-> Num(100),
     improvement_vs_slowest |-> S("89%")]
Ranking ==
    << [rank |-> Num(1), language |-> S("Rust"), score |-> Num(95)],
       [rank |-> Num(2), language |-> S("Go"), score |-> Num(80)],
       [rank |-> Num(3), language |-> S("TypeScript"), score |-> Num(60)] >>
CompleteSummary ==
    [fastest_startup |-> FastestStartup, lowest_memory |-> LowestMemory,
     fastest_analysis |-> FastestAnalysis, performance_ranking |-> Ranking]

\* an entry and the entries that lack one of its keys
Degraded(entry) == {Drop(entry, k) : k \in DOMAIN entry}
DegradedRankings ==
    {[Ranking EXCEPT ![2] = Drop(@, k)] : k \in RankingKeys}

\* the summaries whose every present member is complete
CompleteSummaries ==
    {a @@ b @@ c @@ d :
        a \in Opt("fastest_startup", {FastestStartup}),
        b \in Opt("lowest_memory", {LowestMemory}),
        c \in Opt("fastest_analysis", {FastestAnalysis}),
        d \in Opt("performance_ranking", {Ranking, << >>})}

\* the summaries in which exactly one present member lacks one key
DegradedSummaries ==
    UNION {
      {("fastest_startup" :> e) @@ s : e \in Degraded(FastestStartup)}
      \cup {("lowest_memory" :> e) @@ s : e \in Degraded(LowestMemory)}
      \cup {("fastest_analysis" :> e) @@ s : e \in Degraded(FastestAnalysis)}
      \cup {("performance_ranking" :> e) @@ s : e \in DegradedRankings}
      : s \in CompleteSummaries }

\* documents in which each top-level section is absent or present
SectionDocs ==
    {a @@ b @@ c @@ d @@ e @@ f :
        a \in Opt("system", Systems),
        b \in Opt("test_details", Details),
        c \in Opt("winners", WinnerTables),
        d \in Opt("summary", {EmptyDict, CompleteSummary}),
        e \in Opt("timestamp", {S("2026-10-27T10:00:00Z")}),
        f \in Opt("results", {FullResults})}

FullDoc ==
    [timestamp |-> S("2026-10-27T10:00:00Z"), system |-> FullSystem,
     test_details |-> FullDetails, winners |-> TwoWinners,
     results |-> FullResults, summary |-> CompleteSummary]

\* documents whose summary varies member by member and key by key
NestedDocs ==
    {("summary" :> s) @@ base :
        s \in CompleteSummaries \cup DegradedSummaries,
        base \in {FullDoc, Drop(FullDoc, "winners")}}

\* the timings of the operation table
Timings == (0..MaxVal) \cup {16, 20, 29, 80, 100}

\* documents in which one operation's TypeScript and Rust timings vary
OperationDocs ==
    UNION {
      {[results |->
          (IF ts = EmptyDict /\ rust = EmptyDict THEN [Go |-> go]
           ELSE IF ts = EmptyDict THEN [Go |-> go, Rust |-> rust]
           ELSE IF rust = EmptyDict THEN [Go |-> go, TypeScript |-> ts]
           ELSE [Go |-> go, TypeScript |-> ts, Rust |-> rust])] :
          ts \in Opt(key, {Num(n) : n \in Timings}),
          rust \in Opt(key, {Num(n) : n \in Timings}),
          go \in {[security_audit_ms |-> Num(7)]}}
      : key \in {operations[i][2] : i \in DOMAIN operations} }

\* operation timings of every kind json.load yields
OddTimings ==
    {Num(0), Num(1), Num(80), Huge, Flt(0), Flt(5), NonFinite("inf"),
     NonFinite("nan"), S(""), S("fast"), Null, Bool(TRUE), List(<<1>>)}

\* documents in which the first operation's TypeScript and Rust timings are
\* of any kind
OddTimingDocs ==
    {[results |-> [TypeScript |-> [dependency_analysis_ms |-> ts],
                   Rust |-> [dependency_analysis_ms |-> rust]]] :
        ts \in OddTimings, rust \in OddTimings}

\* documents in which line 119 fails for two operations, in either order,
\* and documents in which it fails and the summary lacks a nested key
FailingRowDocs ==
    {[results |->
         [TypeScript |-> [dependency_analysis_ms |-> first[1],
                          psr4_validation_ms |-> second[1]],
          Go |-> [psr4_validation_ms |-> S("slow")],
          Rust |-> [dependency_analysis_ms |-> first[2],
                    psr4_validation_ms |-> second[2]]]] :
        first \in {<<S("fast"), Num(1)>>, <<Num(1), Huge>>, <<Num(1), Num(1)>>},
        second \in {<<S("fast"), Num(1)>>, <<Num(1), Huge>>}}
    \cup {[summary |-> [fastest_startup |-> [language |-> S("Rust")]],
           results |-> [TypeScript |-> [security_audit_ms |-> pair[1]],
                        Rust |-> [security_audit_ms |-> pair[2]]]] :
             pair \in {<<S("fast"), Num(1)>>, <<Num(1), Huge>>,
                       <<Num(1), Num(1)>>}}

ComparisonMetrics ==
    {"package_size_mb", "binary_size_mb", "startup_time_ms",
     "memory_peak_mb", "full_analysis_ms"}

\* documents in which one comparison metric is present or absent per
\* implementation
ComparisonDocs ==
    {[results |-> ts @@ go @@ rust] :
        ts \in UNION {Opt("TypeScript", {EmptyDict, m :> Num(100)})
                        : m \in ComparisonMetrics},
        go \in UNION {Opt("Go", {m :> Num(70)}) : m \in ComparisonMetrics},
        rust \in UNION {Opt("Rust", {m :> Num(50)})
                          : m \in ComparisonMetrics}}

\* documents that hold a lone surrogate: in a value the report shows, in
\* a key it shows, and in values it does not show
SurrogateDocs ==
    {[timestamp |-> S(LoneSurrogate)],
     [FullDoc EXCEPT !.summary.fastest_startup.language = S(LoneSurrogate)],
     [FullDoc EXCEPT !.winners = << <<<<"a", LoneSurrogate>>, S("Go")>> >>],
     [FullDoc EXCEPT !.system = ("hostname" :> S(LoneSurrogate)) @@ @],
     ("notes" :> S(LoneSurrogate)) @@ FullDoc,
     [timestamp |-> S("x" \o LoneSurrogate)],
     [results |-> [Go |-> [security_audit_ms |-> S("ab" \o LoneSurrogate)]]],
     [summary |->
        [performance_ranking |->
           << [rank |-> Num(1), language |-> S("G" \o LoneSurrogate \o "o"),
               score |-> Num(1)] >>]],
     [FullDoc EXCEPT !.system =
        ("hostname" :> S("h" \o LoneSurrogate \o "h")) @@ @]}

\* documents whose ranking holds one entry, with a rank of any kind
RankDocs ==
    {[summary |->
        [performance_ranking |->
           << [rank |-> rank, language |-> S("Go"), score |-> Num(80)] >>]] :
        rank \in {Num(0), Num(1), Num(2), Num(3), Bool(TRUE), Bool(FALSE),
                  Flt(2), Flt(3), Flt(4), Huge, NonFinite("nan"), S("1"),
                  Null, List(<<1>>)}}

Docs ==
    SectionDocs \cup NestedDocs \cup OperationDocs \cup OddTimingDocs
    \cup FailingRowDocs \cup ComparisonDocs \cup SurrogateDocs
    \cup RankDocs

\* path components: concatenations of at most MaxNameToks of these tokens
Tokens == {<<"r">>, DotJson, <<".", "j">>, <<"s", "o", "n">>}

RECURSIVE NamesOf(_)
NamesOf(n) ==
    IF n = 0 THEN {<< >>}
    ELSE NamesOf(n - 1)
         \cup {name \o tok : name \in NamesOf(n - 1), tok \in Tokens}

Names == NamesOf(MaxNameToks) \ {<< >>}
DirNames == {<<"d">>, <<"d">> \o DotJson}
DefaultPath == <<"r">> \o DotJson

\* paths in the current directory, one directory down and two down
Paths ==
    Names \cup {dir \o <<"/">> \o name : dir \in DirNames, name \in Names}
          \cup {dir \o <<"/", "s", "/">> \o DefaultPath : dir \in DirNames}

\* an older and longer report left at the output path by an earlier run
OldReport ==
    Join(ReportList(FullDoc, StartClock) \o RecommendationLines
         \o <<"(appendix)">>)
NotJson == "benchmark failed: no results"

(***************************************************************************)
(* The program: __main__, lines 214-228, one action per statement.         *)
(***************************************************************************)
NoPath == << >>
NoFile == [kind |-> "missing"]
NoError == [type |-> "none", line |-> 0]

UsageLine == "Usage: python3 generate-report.py <benchmark_results.json>"
Confirmation(path) == ":check_mark: Report generated: " \o Concat(path)

\* print(text) writes text and a newline
Printed(text) == text \o "\n"

\* the files of an invocation: the input file at `path` and what stands
\* where the output goes: nothing, the report of an earlier run, a
\* directory, or the (empty) directory the output path lies in
InitialFiles(path, file, old) ==
    (IF file = NoFile THEN EmptyDict ELSE path :> file)
    @@ (IF old = "report"
        THEN OutputPath(path) :> TextFile(OldReport)
        ELSE IF old = "directory" THEN OutputPath(path) :> Directory
        ELSE IF old = "parent" /\ DirOf(OutputPath(path)) # << >>
        THEN DirOf(OutputPath(path)) :> Directory
        ELSE EmptyDict)

\* invocations whose path is not the canonical name of the file: "./r.json",
\* "d//r.json", "d.json/../r" (with and without the directory the output
\* path goes through), "r.json/", and paths that name a directory or nothing
IndirectScenarios ==
    LET d == <<"d">>
        input == JsonFile(FullDoc)
    IN  {[args |-> <<<<".", "/">> \o DefaultPath>>,
          files |-> DefaultPath :> input],
         [args |-> <<d \o <<"/", "/">> \o DefaultPath>>,
          files |-> (d \o <<"/">> \o DefaultPath) :> input],
         [args |-> <<d \o DotJson \o <<"/", ".", ".", "/", "r">> >>,
          files |-> (<<"r">> :> input) @@ ((d \o DotJson) :> Directory)
                    @@ ((d \o ReportSuffix) :> Directory)],
         [args |-> <<d \o DotJson \o <<"/", ".", ".", "/", "r">> >>,
          files |-> (<<"r">> :> input) @@ ((d \o DotJson) :> Directory)],
         [args |-> <<DefaultPath \o <<"/">> >>,
          files |-> DefaultPath :> input],
         [args |-> <<d \o <<"/">> >>, files |-> d :> Directory],
         [args |-> <<<<".">> >>, files |-> DefaultPath :> input],
         [args |-> << << >> >>, files |-> DefaultPath :> input]}

\* an invocation: the command line and the files it finds
Scenarios ==
    {[args |-> <<DefaultPath>>,
      files |-> InitialFiles(DefaultPath, JsonFile(doc), "none")] :
        doc \in Docs}
    \cup {[args |-> <<p>>,
           files |-> InitialFiles(p, JsonFile(FullDoc), o)] :
            p \in Paths, o \in {"none", "report", "directory", "parent"}}
    \cup {[args |-> <<p>>, files |-> InitialFiles(p, f, o)] :
            p \in Paths,
            f \in {TextFile(NotJson), NoFile, Directory},
            o \in {"none", "report"}}
    \cup {[args |-> a,
           files |-> InitialFiles(DefaultPath, JsonFile(FullDoc), "none")] :
            a \in {<< >>, <<DefaultPath, <<"x">> >>}}
    \cup IndirectScenarios

Init ==
    \E sc \in Scenarios :
        /\ pc = "start"
        /\ argv = sc.args
        /\ fs = sc.files
        /\ fs_start = sc.files
        /\ clock = StartClock
        /\ results_file = NoPath
        /\ results = NoValue
        /\ report_list = << >>
        /\ report = ""
        /\ output_file = NoPath
        /\ stdout = << >>
        /\ status = NoValue
        /\ err = NoError
        /\ effects = << >>
        /\ calls = << >>
        /\ runs = 1

\* lines 215-217: no argument: print the usage line, sys.exit(1)
Usage ==
    /\ pc = "start"
    /\ Len(argv) < 1
    /\ stdout' = Append(stdout, Printed(UsageLine))
    /\ effects' = Append(effects, [op |-> "print", text |-> UsageLine])
    /\ status' = Num(1)
    /\ err' = [type |-> "SystemExit", line |-> 217]
    /\ pc' = "exit"
    /\ UNCHANGED <<argv, fs, clock, results_file, results, report_list,
                   report, output_file, fs_start, calls, runs>>

\* json.load(f) succeeds on a file that holds a JSON document
IsJson(content) == content.kind = "json"

\* lines 219-220, 10-13: results = load_results(sys.argv[1])
LoadResults ==
    /\ pc = "start"
    /\ Len(argv) >= 1
    /\ OpenError(fs, argv[1], "r") = "none"
    /\ IsJson(fs[Target(fs, argv[1])])
    /\ results_file' = argv[1]
    /\ results' = fs[Target(fs, argv[1])].doc
    /\ effects' = Append(effects, [op |-> "load", path |-> argv[1]])
    /\ pc' = "render"
    /\ UNCHANGED <<argv, fs, clock, report_list, report, output_file, stdout,
                   status, err, fs_start, calls, runs>>

\* LoadFails with the output file opened before the input is read
LoadFailsCreatingOutput ==
    /\ pc = "start"
    /\ Len(argv) >= 1
    /\ \/ /\ OpenError(fs, argv[1], "r") # "none"
          /\ err' = [type |-> OpenError(fs, argv[1], "r"), line |-> 12]
       \/ /\ OpenError(fs, argv[1], "r") = "none"
          /\ ~IsJson(fs[Target(fs, argv[1])])
          /\ err' = [type |-> "JSONDecodeError", line |-> 13]
    /\ fs' = Written(fs, OutputPath(argv[1]), "")
    /\ results_file' = argv[1]
    /\ status' = Num(1)
    /\ pc' = "exit"
    /\ UNCHANGED <<argv, clock, results, report_list, report,
                   output_file, stdout, effects, fs_start, calls, runs>>

\* lines 12-13: open() or json.load() raises; the exception ends the process
LoadFails ==
    /\ pc = "start"
    /\ Len(argv) >= 1
    /\ \/ /\ OpenError(fs, argv[1], "r") # "none"
          /\ err' = [type |-> OpenError(fs, argv[1], "r"), line |-> 12]
       \/ /\ OpenError(fs, argv[1], "r") = "none"
          /\ ~IsJson(fs[Target(fs, argv[1])])
          /\ err' = [type |-> "JSONDecodeError", line |-> 13]
    /\ results_file' = argv[1]
    /\ status' = Num(1)
    /\ pc' = "exit"
    /\ UNCHANGED <<argv, fs, clock, results, report_list, report,
                   output_file, stdout, effects, fs_start, calls, runs>>

\* line 221: report = generate_markdown_report(results); line 21 reads the
\* clock, which may have advanced since it was last read
GenerateReport ==
    /\ pc = "render"
    /\ \E now \in clock .. (StartClock + MaxTicks) :
          LET r == Render(results, now)
          IN  /\ clock' = now
              /\ calls' = Append(calls, [results |-> results, now |-> now,
                                         raised |-> r.raised,
                                         lines |-> r.lines, text |-> r.text])
              /\ IF r.raised = "none"
                 THEN /\ report_list' = r.lines
                      /\ report' = r.text
                      /\ effects' = Append(effects, [op |-> "render"])
                      /\ pc' = "write"
                      /\ UNCHANGED <<status, err>>
                 ELSE /\ status' = Num(1)
                      /\ err' = [type |-> r.raised, line |-> 221]
                      /\ pc' = "exit"
                      /\ UNCHANGED <<report_list, report, effects>>
    /\ UNCHANGED <<argv, fs, results_file, results, output_file, stdout,
                   fs_start, runs>>

\* lines 223-225: derive the output path, open it for writing (which
\* creates or empties the file), write; the write raises on a report that
\* UTF-8 cannot encode and leaves the file empty
WriteReport ==
    /\ pc = "write"
    /\ output_file' = OutputPath(results_file)
    /\ IF OpenError(fs, OutputPath(results_file), "w") = "none"
       THEN IF Encodable(results, clock)
            THEN /\ fs' = Written(fs, OutputPath(results_file), report)
                 /\ effects' = Append(effects,
                                      [op |-> "write",
                                       path |-> OutputPath(results_file),
                                       text |-> report])
                 /\ pc' = "confirm"
                 /\ UNCHANGED <<status, err>>
            ELSE /\ fs' = Written(fs, OutputPath(results_file), "")
                 /\ effects' = Append(effects,
                                      [op |-> "write",
                                       path |-> OutputPath(results_file),
                                       text |-> ""])
                 /\ status' = Num(1)
                 /\ err' = [type |-> "UnicodeEncodeError", line |-> 225]
                 /\ pc' = "exit"
       ELSE /\ status' = Num(1)
            /\ err' = [type |-> OpenError(fs, OutputPath(results_file), "w"),
                       line |-> 224]
            /\ pc' = "exit"
            /\ UNCHANGED <<fs, effects>>
    /\ UNCHANGED <<argv, clock, results_file, results, report_list, report,
                   stdout, fs_start, calls, runs>>

\* PrintConfirmation with lines 227 and 228 swapped: the report comes first
PrintConfirmationSwapped ==
    /\ pc = "confirm"
    /\ stdout' = Append(stdout, Printed(report))
    /\ effects' = Append(effects, [op |-> "print", text |-> report])
    /\ pc' = "print"
    /\ UNCHANGED <<argv, fs, clock, results_file, results, report_list,
                   report, output_file, status, err, fs_start, calls, runs>>

\* line 227: print(f"... Report generated: {output_file}")
PrintConfirmation ==
    /\ pc = "confirm"
    /\ stdout' = Append(stdout, Printed(Confirmation(output_file)))
    /\ effects' = Append(effects, [op |-> "print",
                                   text |-> Confirmation(output_file)])
    /\ pc' = "print"
    /\ UNCHANGED <<argv, fs, clock, results_file, results, report_list,
                   report, output_file, status, err, fs_start, calls, runs>>

\* line 228: print(report)
PrintReport ==
    /\ pc = "print"
    /\ stdout' = Append(stdout, Printed(report))
    /\ effects' = Append(effects, [op |-> "print", text |-> report])
    /\ pc' = "end"
    /\ UNCHANGED <<argv, fs, clock, results_file, results, report_list,
                   report, output_file, status, err, fs_start, calls, runs>>

\* the script ends after line 228: the interpreter exits with status 0
Exit ==
    /\ pc = "end"
    /\ status' = Num(0)
    /\ effects' = Append(effects, [op |-> "exit", status |-> 0])
    /\ pc' = "exit"
    /\ UNCHANGED <<argv, fs, clock, results_file, results, report_list,
                   report, output_file, stdout, err, fs_start, calls, runs>>

\* line 214: the same command is run again, on the files the last run left
Restart ==
    /\ pc = "exit"
    /\ runs < MaxRuns
    /\ runs' = runs + 1
    /\ pc' = "start"
    /\ fs_start' = fs
    /\ results_file' = NoPath
    /\ results' = NoValue
    /\ report_list' = << >>
    /\ report' = ""
    /\ output_file' = NoPath
    /\ stdout' = << >>
    /\ status' = NoValue
    /\ err' = NoError
    /\ effects' = << >>
    /\ UNCHANGED <<argv, fs, clock, calls>>

Next ==
    \/ Usage
    \/ LoadResults
    \/ LoadFails
    \/ GenerateReport
    \/ WriteReport
    \/ PrintConfirmation
    \/ PrintReport
    \/ Exit
    \/ Restart

Spec == Init /\ [][Next]_vars

(***************************************************************************)
(* Properties.                                                             *)
(***************************************************************************)
Returned(call) == call.raised = "none"
Succeeded == pc = "exit" /\ status = Num(0)
LastCall == calls[Len(calls)]

\* the first position of `line` in `lines` (0 when it does not occur)
IndexOf(lines, line) ==
    IF \E i \in DOMAIN lines : lines[i] = line
    THEN CHOOSE i \in DOMAIN lines :
            lines[i] = line /\ \A j \in 1 .. (i - 1) : lines[j] # line
    ELSE 0

\* what an absent top-level section leaves in the report
AbsentSectionsHandled(doc, lines) ==
    /\ "system" \notin DOMAIN doc =>
          /\ "- **OS:** N/A" \in Range(lines)
          /\ "- **Architecture:** N/A" \in Range(lines)
          /\ "- **Kernel:** N/A" \in Range(lines)
          /\ lines[IndexOf(lines, "- **Kernel:** N/A") + 1] = ""
    /\ "test_details" \notin DOMAIN doc =>
          /\ "## :clipboard: Test Configuration" \notin Range(lines)
          /\ IndexOf(lines, "## :trophy: Performance Summary")
                = IndexOf(lines, "## :desktop_computer: Test Environment") + 6
                  + Cardinality({"cpu", "memory"}
                                \cap DOMAIN Get(doc, "system", EmptyDict))
    /\ "winners" \notin DOMAIN doc =>
          /\ "| Category | Winner |" \notin Range(lines)
          /\ lines[IndexOf(lines, "## :trophy: Performance Summary") + 2]
                = "## :bar_chart: Detailed Benchmark Results"
    /\ "summary" \notin DOMAIN doc =>
          /\ lines[IndexOf(lines, "## :bulb: Key Insights") + 2]
                = "## :dart: Recommendations"
          /\ lines[IndexOf(lines, "**Performance Ranking:**") + 1] = ""

\* C1: for every input document, whichever of the sections system,
\* test_details, winners and summary are absent, generate_markdown_report
\* returns a string without raising, and each absent section is omitted from
\* the report or rendered with "N/A" placeholders.
C1_AbsentSectionsNeverFail ==
    \A i \in DOMAIN calls :
        ({"system", "test_details", "winners", "summary"}
            \ DOMAIN calls[i].results) # {} =>
            /\ Returned(calls[i])
            /\ AbsentSectionsHandled(calls[i].results, calls[i].lines)

\* what holds of C1 on the calls that return: an absent section is omitted
\* or rendered with "N/A" placeholders
AbsentSectionsHandledWhenReturned ==
    \A i \in DOMAIN calls :
        Returned(calls[i]) =>
            AbsentSectionsHandled(calls[i].results, calls[i].lines)

\* the summary members of a document and the keys the report shows of each
NestedKeys ==
    [fastest_startup |-> {"language", "time_ms", "improvement_vs_slowest"},
     lowest_memory |-> {"language", "memory_mb", "improvement_vs_highest"},
     fastest_analysis |-> {"language", "time_ms", "improvement_vs_slowest"}]

\* a present summary entry or ranking record lacks one of its keys
LacksNestedKey(doc) ==
    /\ "summary" \in DOMAIN doc
    /\ \/ \E m \in DOMAIN NestedKeys :
             /\ m \in DOMAIN doc["summary"]
             /\ \E k \in NestedKeys[m] : k \notin DOMAIN doc["summary"][m]
       \/ /\ "performance_ranking" \in DOMAIN doc["summary"]
          /\ \E i \in DOMAIN doc["summary"]["performance_ranking"] :
                \E k \in {"rank", "language", "score"} :
                    k \notin DOMAIN doc["summary"]["performance_ranking"][i]

\* C2: when a present summary entry or a performance_ranking record lacks
\* any of its keys, generate_markdown_report substitutes a default and
\* returns a report instead of raising an error.
C2_NestedKeysDefaulted ==
    \A i \in DOMAIN calls :
        LacksNestedKey(calls[i].results) => Returned(calls[i])

\* the process ended on a missing argument (line 217) or on a failure to
\* open or parse the input file (lines 12, 13)
FatalError ==
    /\ pc = "exit"
    /\ \/ err = [type |-> "SystemExit", line |-> 217]
       \/ /\ err.line = 12
          /\ err.type \in {"FileNotFoundError", "IsADirectoryError",
                           "NotADirectoryError"}
       \/ err = [type |-> "JSONDecodeError", line |-> 13]

\* C3: an execution that hits a fatal error (argument absent, input file
\* missing, input not valid JSON) ends with a non-zero exit status, creates
\* or writes no file, and prints neither the confirmation line nor any
\* report text.
C3_FatalErrorsLeaveNoOutput ==
    FatalError =>
        /\ status # NoValue /\ status.v # 0
        /\ fs = fs_start
        /\ \A i \in DOMAIN effects : effects[i].op # "write"
        /\ \A i \in DOMAIN stdout : stdout[i] = Printed(UsageLine)

C3_Witness ==
    /\ FatalError
    /\ err.type = "JSONDecodeError"
    /\ runs = 1

EndsWith(s, suffix) ==
    /\ Len(s) >= Len(suffix)
    /\ SubSeq(s, Len(s) - Len(suffix) + 1, Len(s)) = suffix

\* the path with only its trailing ".json" replaced by "_report.md"
SuffixReplaced(path) ==
    SubSeq(path, 1, Len(path) - Len(DotJson)) \o ReportSuffix

\* C4: the output path is the input path with only its trailing ".json"
\* suffix replaced by "_report.md"; any earlier ".json" is left unchanged.
C4_OnlyTrailingSuffixReplaced ==
    (output_file # NoPath /\ EndsWith(results_file, DotJson)) =>
        output_file = SuffixReplaced(results_file)

\* C5: in a successful execution the side effects happen exactly once each
\* and in this order: load, render, one file write, the confirmation line,
\* the report text, exit with status 0; nothing else is written to a file
\* or to standard output, and status 0 is reached only at the very end.
C5_SideEffectsInOrder ==
    /\ status = Num(0) => pc = "exit"
    /\ Succeeded =>
          /\ effects =
                << [op |-> "load", path |-> results_file],
                   [op |-> "render"],
                   [op |-> "write", path |-> output_file, text |-> report],
                   [op |-> "print",
                    text |-> ":check_mark: Report generated: "
                             \o Concat(output_file)],
                   [op |-> "print", text |-> report],
                   [op |-> "exit", status |-> 0] >>
          /\ stdout =
                << ":check_mark: Report generated: " \o Concat(output_file)
                       \o "\n",
                   report \o "\n" >>
          /\ \A p \in (DOMAIN fs \cup DOMAIN fs_start)
                        \ {Target(fs, output_file)} :
                p \in DOMAIN fs /\ p \in DOMAIN fs_start
                /\ fs[p] = fs_start[p]

C5_Witness == Succeeded /\ runs = 2

\* C6: after a successful execution the content of the output file, read
\* back, equals the string the render step returned for the same input,
\* also when the output file existed before with longer content.
C6_RoundTrip ==
    Succeeded =>
        /\ LastCall.results = results
        /\ Returned(LastCall)
        /\ Target(fs, output_file) \in DOMAIN fs
        /\ fs[Target(fs, output_file)] =
              [kind |-> "text", text |-> LastCall.text]

C6_Witness ==
    /\ Succeeded
    /\ output_file \in DOMAIN fs_start
    /\ fs_start[output_file].kind = "text"
    /\ Len(fs_start[output_file].text) > Len(LastCall.text)

\* C7 as claimed: generate_markdown_report is a pure function: two calls
\* with the same results object, at any two times, return the same string.
C7_RenderIsPure ==
    \A i, j \in DOMAIN calls :
        calls[i].results = calls[j].results =>
            calls[i].text = calls[j].text

\* C7 as amended: two calls with the same results object raise alike or
\* return reports that are equal line by line except for line 3, the
\* "**Generated:**" line, which shows the clock reading of the call; calls
\* made within the same second return the same string; and the call writes
\* neither a file nor standard output.
C7_RenderDependsOnClockOnly ==
    /\ \A i, j \in DOMAIN calls :
          calls[i].results = calls[j].results =>
              /\ calls[i].raised = calls[j].raised
              /\ Len(calls[i].lines) = Len(calls[j].lines)
              /\ \A k \in DOMAIN calls[i].lines \ {3} :
                    calls[i].lines[k] = calls[j].lines[k]
              /\ Returned(calls[i]) =>
                    calls[i].lines[3]
                        = "**Generated:** " \o Strftime(calls[i].now)
              /\ calls[i].now = calls[j].now =>
                    calls[i].text = calls[j].text
    /\ pc = "write" => fs = fs_start /\ stdout = << >>

C7_Witness ==
    \E i, j \in DOMAIN calls :
        /\ calls[i].results = calls[j].results
        /\ calls[i].now # calls[j].now
        /\ Returned(calls[i])
        /\ "timestamp" \notin DOMAIN calls[i].results

\* the renderings of a number of tenths, to one decimal place
OneDecimal(t) ==
    {sign \o ToString(Abs(t) \div 10) \o "." \o ToString(Abs(t) % 10) :
        sign \in IF t < 0 THEN {"-"} ELSE IF t = 0 THEN {"", "-"} ELSE {""}}

\* the cells that read (ts - rust) / ts * 100 to one decimal place followed
\* by "% faster", for integers ts # 0 and rust: the percentage to the
\* nearest tenth
ClaimedSpeedupCells(ts, rust) ==
    LET exact1000 == 1000 * (ts - rust)   \* ts * (the percentage * 10)
        q == exact1000 \div ts
    IN  UNION {{text \o "% faster" : text \in OneDecimal(t)} :
                 t \in {u \in {q, q + 1} :
                          2 * Abs(u * ts - exact1000) <= Abs(ts)}}

\* the numeric values: the ints and the finite floats
Numeric(x) == x.t \in {"num", "huge", "float"}
IsZero(x) == x.t \in {"num", "float"} /\ x.v = 0

\* the TypeScript and Rust values of every operation are numeric or missing
NumericTimings(doc) ==
    \A i \in DOMAIN operations : \A name \in {"TypeScript", "Rust"} :
        Numeric(Metric(Get(doc, "results", EmptyDict), name,
                       operations[i][2], Num(0)))

\* `line` is the row of operation i with the speedup cell the claim
\* describes, for numeric TypeScript and Rust values.  With Huge for the
\* TypeScript value the percentage is 0 or within 10^-390 of 100; with Huge
\* for the Rust value only it is a numeral of about 400 digits, of which
\* this states that it is not "N/A"
RowAsClaimed(line, i, res) ==
    LET key == operations[i][2]
        ts == Metric(res, "TypeScript", key, Num(0))
        go == Metric(res, "Go", key, Num(0))
        rust == Metric(res, "Rust", key, Num(0))
        Row(cell) == "| " \o operations[i][1] \o " | " \o Fmt(ts) \o " ms | "
                     \o Fmt(go) \o " ms | " \o Fmt(rust) \o " ms | "
                     \o cell \o " |"
    IN  IF IsZero(ts) \/ IsZero(rust) THEN line = Row("N/A")
        ELSE IF ts = Huge /\ rust = Huge
        THEN \E text \in OneDecimal(0) : line = Row(text \o "% faster")
        ELSE IF ts = Huge THEN line = Row("100.0% faster")
        ELSE IF rust = Huge THEN line # Row("N/A")
        ELSE \E cell \in ClaimedSpeedupCells(Twice(ts), Twice(rust)) :
                line = Row(cell)

\* the operation table of a returned call holds the five rows the claim
\* describes
TableAsClaimed(call) ==
    LET lines == call.lines
        h == IndexOf(lines,
               "| Operation | TypeScript | Go | Rust | Speedup (Rust vs TS) |")
    IN  /\ h > 0
        /\ \A i \in DOMAIN operations :
              RowAsClaimed(lines[h + 1 + i], i,
                           Get(call.results, "results", EmptyDict))

\* C8: in each of the five operation rows and for all numeric TypeScript
\* and Rust values (missing values read as 0), the speedup cell reads "N/A"
\* when the TypeScript or the Rust value is 0, and otherwise
\* (ts - rust) / ts * 100 formatted to one decimal place followed by
\* "% faster"; a division by zero never happens.  Every row has its cell,
\* so line 119 raises nothing.
C8_SpeedupCellForAllNumbers ==
    \A c \in DOMAIN calls :
        NumericTimings(calls[c].results) =>
            /\ calls[c].raised \notin Exceptions
            /\ Returned(calls[c]) => TableAsClaimed(calls[c])

\* what holds of C8: line 119 never divides by zero, and every call with
\* numeric timings that returns shows the cells the claim describes
SpeedupCellWhenComputed ==
    \A c \in DOMAIN calls :
        /\ calls[c].raised # "ZeroDivisionError"
        /\ NumericTimings(calls[c].results) /\ Returned(calls[c]) =>
              TableAsClaimed(calls[c])

\* a returned call whose table holds a computed cell, here 63.75 printed
\* from the double just below it, and an "N/A" cell
SpeedupCellComputed ==
    \E c \in DOMAIN calls :
        /\ Returned(calls[c])
        /\ "| Dependency Analysis | 80 ms | 0 ms | 29 ms | 63.7% faster |"
              \in Range(calls[c].lines)
        /\ "| PSR-4 Validation | 0 ms | 0 ms | 0 ms | N/A |"
              \in Range(calls[c].lines)

\* a call with numeric timings that line 119 ends with OverflowError
OverflowReached ==
    \E c \in DOMAIN calls :
        /\ NumericTimings(calls[c].results)
        /\ calls[c].raised = "OverflowError"

\* a cell of the comparison table: the value and its unit, "N/A" if missing
ClaimedCell(res, name, metric, unit) ==
    (IF name \in DOMAIN res /\ metric \in DOMAIN res[name]
     THEN Fmt(res[name][metric]) ELSE "N/A") \o " " \o unit

\* a row of the comparison table whose TypeScript cell is ts_cell
ClaimedRow(res, label, ts_cell, metric, unit) ==
    "| " \o label \o " | " \o ts_cell \o " | "
    \o ClaimedCell(res, "Go", metric, unit) \o " | "
    \o ClaimedCell(res, "Rust", metric, unit) \o " | Rust |"

\* the comparison table of `lines` has exactly the four rows, the first
\* with one of the TypeScript cells ts_cells
ComparisonTableIs(lines, res, ts_cells) ==
    LET h == IndexOf(lines, "| Metric | TypeScript | Go | Rust | Winner |")
    IN  /\ h > 0
        /\ \E ts_cell \in ts_cells :
              lines[h + 2] =
                 ClaimedRow(res, "Binary Size", ts_cell, "binary_size_mb", "MB")
        /\ lines[h + 3] =
              ClaimedRow(res, "Startup Time",
                         ClaimedCell(res, "TypeScript", "startup_time_ms", "ms"),
                         "startup_time_ms", "ms")
        /\ lines[h + 4] =
              ClaimedRow(res, "Memory Peak",
                         ClaimedCell(res, "TypeScript", "memory_peak_mb", "MB"),
                         "memory_peak_mb", "MB")
        /\ lines[h + 5] =
              ClaimedRow(res, "Full Analysis",
                         ClaimedCell(res, "TypeScript", "full_analysis_ms", "ms"),
                         "full_analysis_ms", "ms")
        /\ lines[h + 6] = ""

HasPackageSize(res) ==
    "TypeScript" \in DOMAIN res /\ "package_size_mb" \in DOMAIN res["TypeScript"]

\* C9 as claimed: the comparison table has exactly four rows, and in every
\* row each of the TypeScript, Go and Rust columns shows that row's metric
\* of results.<Name>, or "N/A" when it is missing; the Winner column is the
\* literal "Rust".
C9_EveryColumnShowsItsMetric ==
    \A c \in DOMAIN calls :
        Returned(calls[c]) =>
            LET res == Get(calls[c].results, "results", EmptyDict)
            IN  ComparisonTableIs(calls[c].lines, res,
                    IF HasPackageSize(res)
                    THEN {ClaimedCell(res, "TypeScript", "package_size_mb", "MB")}
                    ELSE {"N/A MB", "N/A (needs runtime)"})

\* C9 as amended: as claimed, except that the TypeScript column of the
\* Binary Size row is the literal "N/A (needs runtime)" whatever
\* results.TypeScript holds.
C9_ColumnsExceptTypeScriptBinary ==
    \A c \in DOMAIN calls :
        Returned(calls[c]) =>
            ComparisonTableIs(calls[c].lines,
                              Get(calls[c].results, "results", EmptyDict),
                              {"N/A (needs runtime)"})

C9_Witness ==
    \E c \in DOMAIN calls :
        /\ Returned(calls[c])
        /\ "| Binary Size | N/A (needs runtime) | N/A MB | 50 MB | Rust |"
              \in Range(calls[c].lines)
        /\ "results" \in DOMAIN calls[c].results
        /\ HasPackageSize(calls[c].results["results"])

\* C10: the program never writes to its input file: the derived output path
\* differs from the input path, and after any execution the input file's
\* content is unchanged.
C10_InputFileUntouched ==
    /\ output_file # NoPath => output_file # results_file
    /\ (pc = "exit" /\ results_file # NoPath
           /\ OpenError(fs_start, results_file, "r") = "none") =>
          LET input == Target(fs_start, results_file)
          IN  /\ input \in DOMAIN fs
              /\ fs[input] = fs_start[input]

====
